---- MODULE Spec2Model ----
(***************************************************************************)
(* Sensitive-information report generation of Stellar.                     *)
(*                                                                         *)
(* The module models src/test/demo_sensitive_report.py: the detection      *)
(* result fixture, the four report generators (HTML, JSON, CSV, TXT) and   *)
(* main, which renders the fixture in every format.  The generators are    *)
(* module-level functions, so besides main's run the model has a second    *)
(* entry in which a caller passes a detection result of its own and calls  *)
(* the generators in any order, any number of times.                       *)
(*                                                                         *)
(* Three further specifications share the module.  SpecPlugin models       *)
(* src/internal/plugin/examples/python/hello_plugin.py, run as a script    *)
(* or imported.  SpecTester models run_all_tests of                        *)
(* src/test/test_sensitive_report.py against every answer of the server.   *)
(* SpecScan models the aggregation of per-target results into a detection  *)
(* result, which has no code in the repository.                            *)
(*                                                                         *)
(* Text that the generators slice (matchedText, context) is a sequence of  *)
(* one-character strings; text that is only interpolated is a string.      *)
(* A Python dict is a sequence of [key, value] records in insertion order. *)
(* A finding without the key lineNumber is a record without that field.    *)
(* datetime.now() reads the variable now, which Tick advances.             *)
(* Chinese text of the source is written in English inside strings; a      *)
(* Chinese character, quote or newline of a sliced text is the one-element *)
(* string "U+xxxx"; a regex of the fixture is named, not spelled out.      *)
(***************************************************************************)
EXTENDS Integers, Sequences, FiniteSets, TLC

\* ------------------------------------------------------------------ bounds

\* Longest findings list a caller passes to a generator.
MaxFindings == 1

\* Last value of the clock read by datetime.now().
MaxClock == 1

\* ------------------------------------------------------- program constants

\* matchedText display lengths of generate_html_report / csv / txt.
HtmlMatchedLen == 50
CsvMatchedLen == 100
TxtMatchedLen == 200

\* context display lengths of generate_csv_report / generate_txt_report.
CsvContextLen == 150
TxtContextLen == 300

\* ----------------------------------------------------------------- helpers

Digits == <<"0", "1", "2", "3", "4", "5", "6", "7", "8", "9">>

\* str(n) of a non-negative int, as the f-strings and csv.writer print it.
RECURSIVE str(_)
str(n) ==
  IF n < 10 THEN <<Digits[n + 1]>>
  ELSE str(n \div 10) \o <<Digits[(n % 10) + 1]>>

\* str(x) of a float with no fractional part: 100.0 prints "100.0".
float_str(n) == str(n) \o <<".", "0">>

Ellipsis == <<".", ".", ".">>

\* dict.get(key) is not None/absent: the record has the field.
HasKey(d, key) == key \in DOMAIN d

\* Keys of a dict comprehension over a list: first occurrences, in order.
RECURSIVE DictKeys(_)
DictKeys(keys) ==
  IF keys = <<>> THEN <<>>
  ELSE LET front == DictKeys(SubSeq(keys, 1, Len(keys) - 1))
           last  == keys[Len(keys)]
       IN IF \E i \in 1..Len(front) : front[i] = last
          THEN front ELSE Append(front, last)

\* ------------------------------------------------------------- the fixture

Fixture_matched1 ==
  <<"a", "p", "i", "_", "k", "e", "y", " ", "=", " ", "'", "s", "k", "-",
     "1", "2", "3", "4", "5", "6", "7", "8", "9", "0", "a", "b", "c",
     "d", "e", "f", "1", "2", "3", "4", "5", "6", "7", "8", "9", "0",
     "a", "b", "c", "d", "e", "f", "'">>

Fixture_matched2 ==
  <<"u", "s", "e", "r", "_", "p", "a", "s", "s", "w", "o", "r", "d", " ",
     "=", " ", "'", "m", "y", "p", "a", "s", "s", "w", "o", "r", "d",
     "1", "2", "3", "'">>

Fixture_matched3 ==
  <<"j", "w", "t", "_", "s", "e", "c", "r", "e", "t", ":", " ", "'", "m",
     "y", "-", "s", "u", "p", "e", "r", "-", "s", "e", "c", "r", "e",
     "t", "-", "j", "w", "t", "-", "k", "e", "y", "-", "2", "0", "2",
     "3", "'">>

Fixture_context1 ==
  <<"#", " ", "U+914D", "U+7F6E", "U+6587", "U+4EF6", "U+000A", "d", "a",
     "t", "a", "b", "a", "s", "e", "_", "u", "r", "l", " ", "=", " ",
     "'", "m", "o", "n", "g", "o", "d", "b", ":", "/", "/", "l", "o",
     "c", "a", "l", "h", "o", "s", "t", ":", "2", "7", "0", "1", "7",
     "/", "t", "e", "s", "t", "d", "b", "'", "U+000A", "a", "p", "i",
     "_", "k", "e", "y", " ", "=", " ", "'", "s", "k", "-", "1", "2",
     "3", "4", "5", "6", "7", "8", "9", "0", "a", "b", "c", "d", "e",
     "f", "1", "2", "3", "4", "5", "6", "7", "8", "9", "0", "a", "b",
     "c", "d", "e", "f", "'", "U+000A", "s", "e", "c", "r", "e", "t",
     "_", "t", "o", "k", "e", "n", " ", "=", " ", "'", "a", "b", "c",
     "1", "2", "3", "d", "e", "f", "4", "5", "6", "g", "h", "i", "7",
     "8", "9", "j", "k", "l", "0", "1", "2", "m", "n", "o", "3", "4",
     "5", "p", "q", "r", "'">>

Fixture_context2 ==
  <<"#", " ", "U+7528", "U+6237", "U+914D", "U+7F6E", "U+000A", "u", "s",
     "e", "r", "_", "n", "a", "m", "e", " ", "=", " ", "'", "a", "d",
     "m", "i", "n", "'", "U+000A", "u", "s", "e", "r", "_", "p", "a",
     "s", "s", "w", "o", "r", "d", " ", "=", " ", "'", "m", "y", "p",
     "a", "s", "s", "w", "o", "r", "d", "1", "2", "3", "'", "U+000A",
     "u", "s", "e", "r", "_", "e", "m", "a", "i", "l", " ", "=", " ",
     "'", "a", "d", "m", "i", "n", "@", "e", "x", "a", "m", "p", "l",
     "e", ".", "c", "o", "m", "'">>

Fixture_context3 ==
  <<"{", "U+000A", " ", " ", "U+0022", "d", "a", "t", "a", "b", "a", "s",
     "e", "U+0022", ":", " ", "U+0022", "m", "o", "n", "g", "o", "d",
     "b", ":", "/", "/", "l", "o", "c", "a", "l", "h", "o", "s", "t",
     ":", "2", "7", "0", "1", "7", "U+0022", ",", "U+000A", " ", " ",
     "U+0022", "j", "w", "t", "_", "s", "e", "c", "r", "e", "t",
     "U+0022", ":", " ", "U+0022", "m", "y", "-", "s", "u", "p", "e",
     "r", "-", "s", "e", "c", "r", "e", "t", "-", "j", "w", "t", "-",
     "k", "e", "y", "-", "2", "0", "2", "3", "U+0022", ",", "U+000A",
     " ", " ", "U+0022", "d", "e", "b", "u", "g", "U+0022", ":", " ",
     "t", "r", "u", "e", "U+000A", "}">>

\* Fault variant of Fixture_summary: a total that lags one finding behind.
Fixture_summary_miscounted ==
  [ totalFindings  |-> 2,
    riskLevelCount |-> << [key |-> "high",   value |-> 2],
                          [key |-> "medium", value |-> 1],
                          [key |-> "low",    value |-> 0] >>,
    categoryCount  |-> << [key |-> "api_key",    value |-> 1],
                          [key |-> "password",   value |-> 1],
                          [key |-> "jwt_secret", value |-> 1] >> ]

\* The summary literal of the fixture.
Fixture_summary ==
  [ totalFindings  |-> 3,
    riskLevelCount |-> << [key |-> "high",   value |-> 2],
                          [key |-> "medium", value |-> 1],
                          [key |-> "low",    value |-> 0] >>,
    categoryCount  |-> << [key |-> "api_key",    value |-> 1],
                          [key |-> "password",   value |-> 1],
                          [key |-> "jwt_secret", value |-> 1] >> ]

Fixture_findings(t) ==
  << [ id |-> "finding1", target |-> "file:///tmp/test_config.conf",
       targetType |-> "file", rule |-> "api_key_rule",
       ruleName |-> "API key detection", category |-> "api_key",
       riskLevel |-> "high",
       pattern |-> "api_key regex",
       matchedText |-> Fixture_matched1, context |-> Fixture_context1,
       lineNumber |-> 3, filePath |-> "/tmp/test_config.conf",
       fileSize |-> 1024, createdAt |-> t ],
     [ id |-> "finding2", target |-> "file:///tmp/test_config.conf",
       targetType |-> "file", rule |-> "password_rule",
       ruleName |-> "password detection", category |-> "password",
       riskLevel |-> "medium",
       pattern |-> "password regex",
       matchedText |-> Fixture_matched2, context |-> Fixture_context2,
       lineNumber |-> 7, filePath |-> "/tmp/test_config.conf",
       fileSize |-> 1024, createdAt |-> t ],
     [ id |-> "finding3", target |-> "https://example.com/api/config",
       targetType |-> "url", rule |-> "jwt_secret_rule",
       ruleName |-> "JWT secret detection", category |-> "jwt_secret",
       riskLevel |-> "high",
       pattern |-> "jwt_secret regex",
       matchedText |-> Fixture_matched3, context |-> Fixture_context3,
       lineNumber |-> 3, filePath |-> "",
       fileSize |-> 0, createdAt |-> t ] >>

\* create_mock_detection_result(), every datetime.now() in it reading t.
create_mock_detection_result(t) ==
  [ id          |-> "65a1234567890abcdef12345",
    projectId   |-> "65a9876543210fedcba09876",
    name        |-> "sensitive detection test task",
    targets     |-> << "file:///tmp/test_config.conf",
                       "https://example.com/api/config" >>,
    status      |-> "completed",
    startTime   |-> t,
    endTime     |-> t,
    progress    |-> 100,
    findings    |-> Fixture_findings(t),
    summary     |-> Fixture_summary,
    createdAt   |-> t,
    updatedAt   |-> t,
    totalCount  |-> 2,
    finishCount |-> 2 ]

\* --------------------------------------------- detection results of callers

\* A text of n characters, no two neighbours equal.
Text(n) == [i \in 1..n |-> Digits[(i % 10) + 1]]

FileTarget == "file:///tmp/test_config.conf"
UrlTarget == "https://example.com/api/config"

\* A finding dict without the key lineNumber.
Finding(id, target, targetType, riskLevel, category, ruleName, matchedText, context) ==
  [ id |-> id, target |-> target, targetType |-> targetType,
    rule |-> id, ruleName |-> ruleName,
    category |-> category, riskLevel |-> riskLevel,
    pattern |-> "[a-z]+", matchedText |-> matchedText, context |-> context,
    filePath |-> "", fileSize |-> 0, createdAt |-> 0 ]

\* The same dict with lineNumber set to n.
WithLine(finding, n) ==
  [k \in DOMAIN finding \cup {"lineNumber"} |->
     IF k = "lineNumber" THEN n ELSE finding[k]]

\* Findings a caller's result is built from: every risk level, matched texts
\* at and just above each display length, line numbers present, 0 and absent,
\* contexts empty, short, and at and just above each display length.
PoolList ==
  << WithLine(Finding("p1", FileTarget, "file", "high", "api_key", "api key rule",
                     Text(HtmlMatchedLen), Text(0)), 3),
    WithLine(Finding("p2", FileTarget, "file", "medium", "password", "password rule",
                     Text(HtmlMatchedLen + 1), Text(CsvContextLen + 1)), 0),
    Finding("p3", UrlTarget, "url", "high", "jwt_secret", "jwt rule",
            Text(CsvMatchedLen), Text(10)),
    WithLine(Finding("p4", UrlTarget, "url", "low", "api_key", "api key rule",
                     Text(CsvMatchedLen + 1), Text(CsvContextLen)), 7),
    Finding("p5", FileTarget, "file", "medium", "password", "password rule",
            Text(TxtMatchedLen), Text(TxtContextLen + 1)),
    WithLine(Finding("p6", UrlTarget, "url", "low", "jwt_secret", "jwt rule",
                     Text(TxtMatchedLen + 1), Text(TxtContextLen)), 0) >>

FindingPool == {PoolList[i] : i \in 1..Len(PoolList)}

\* The findings lists of callers: every list of at most MaxFindings findings
\* of the pool, and the pool as one list.
FindingLists ==
  UNION { [1..n -> FindingPool] : n \in 0..MaxFindings } \cup {PoolList}

RiskLevels == <<"high", "medium", "low">>

\* Number of findings whose field has the value.
Count(findings, field, value) ==
  Cardinality({i \in 1..Len(findings) : findings[i][field] = value})

\* The summary the data model derives from a findings list: the total, a
\* count for each of the three risk levels, a count for each category seen.
SummaryOf(findings) ==
  [ totalFindings  |-> Len(findings),
    riskLevelCount |->
      [i \in 1..Len(RiskLevels) |->
         [key |-> RiskLevels[i],
          value |-> Count(findings, "riskLevel", RiskLevels[i])]],
    categoryCount  |->
      LET cats == DictKeys([i \in 1..Len(findings) |-> findings[i].category])
      IN [i \in 1..Len(cats) |->
            [key |-> cats[i],
             value |-> Count(findings, "category", cats[i])]] ]

\* The dict a caller passes to a generator.
CallerResult(findings, targets, summary) ==
  [ id          |-> "caller-result",
    projectId   |-> "caller-project",
    name        |-> "caller detection",
    targets     |-> targets,
    status      |-> "completed",
    startTime   |-> 0,
    endTime     |-> 0,
    progress    |-> 100,
    findings    |-> findings,
    summary     |-> summary,
    createdAt   |-> 0,
    updatedAt   |-> 0,
    totalCount  |-> Len(targets),
    finishCount |-> Len(targets) ]

\* Nothing in the generators ties the summary of the dict to its findings,
\* or its targets to the targets of its findings.  A caller passes a summary
\* derived from its findings, or one left from other findings (the
\* fixture's literal); its targets name each scanned target once, or one
\* of them twice.
CallerResults ==
  UNION { { CallerResult(fs, <<FileTarget, UrlTarget>>, SummaryOf(fs)),
            CallerResult(fs, <<FileTarget, FileTarget, UrlTarget>>,
                         Fixture_summary) } :
          fs \in FindingLists }

\* ------------------------------------------------------------------- state

VARIABLES
  pc,                \* main's position, or "call" when a caller drives
  detection_result,  \* the dict the generators are given
  files,             \* the report file of each format, as last written
  overwritten,       \* history: the format of the latest report written
                     \* and the content open(filename, 'w') replaced
  now,               \* the clock datetime.now() reads
  scan,              \* the detection result a scan aggregates, with its
                     \* targets still to merge and those that failed
  CONFIG,            \* hello_plugin.py: the global CONFIG
  proc,              \* hello_plugin.py: argv, stdin, stdout, exit status
  tester             \* the SensitiveReportTester object and its run

vars ==
  <<pc, detection_result, files, overwritten, now, scan, CONFIG, proc, tester>>

\* No scan is running.
NoScan == [status |-> "idle"]

\* {}
EmptyDict == [key \in {} |-> ""]

\* A text given to json.loads, by what it parses to: a JSON object (a
\* function on its keys), a JSON array, or a text that json.loads rejects.
\* The fields of the other kinds are empty.
JsonObject(object) ==
  [kind |-> "object", object |-> object, items |-> <<>>, text |-> ""]

JsonArray(items) ==
  [kind |-> "array", object |-> EmptyDict, items |-> items, text |-> ""]

NotJsonText(text) ==
  [kind |-> "invalid", object |-> EmptyDict, items |-> <<>>, text |-> text]

\* CONFIG as the module sets it when loaded: the JSON object {}.
EmptyConfig == JsonObject(EmptyDict)

\* The plugin was not started.
NoProcess == [pc |-> "not started"]

\* No SensitiveReportTester was constructed.
NoTester == [pc |-> "idle"]

\* The parts of the state that the report generators are not part of.
Idle ==
  /\ scan = NoScan
  /\ CONFIG = EmptyConfig
  /\ proc = NoProcess
  /\ tester = NoTester

Formats == {"html", "json", "csv", "txt"}

\* A report file that was not written yet.
NoFile == [written |-> FALSE]

\* detection_result before main assigned it.
NoResult == [id |-> "unassigned"]

Written(format) == files[format] # NoFile

\* open(filename, 'w') followed by the write: the file holds the new content
\* and the content it had is gone; overwritten remembers the latter.
write_file(format, content) ==
  /\ files' = [files EXCEPT ![format] = content]
  /\ overwritten' = [format |-> format, content |-> files[format]]

\* ----------------------------------------------------- generate_html_report

\* The matched text of a table row: cut to 50 characters plus "..." when
\* longer than 50.
html_matched_text(finding) ==
  IF Len(finding.matchedText) > HtmlMatchedLen
  THEN SubSeq(finding.matchedText, 1, HtmlMatchedLen) \o Ellipsis
  ELSE finding.matchedText

\* finding.get('lineNumber', '-'), as the row prints it.
html_line_number(finding) ==
  IF HasKey(finding, "lineNumber") THEN str(finding.lineNumber) ELSE <<"-">>

\* One <tr> of the findings table: its seven <td> cells.
html_row(i, finding) ==
  [ index       |-> str(i),
    target      |-> finding.target,
    ruleName    |-> finding.ruleName,
    riskLevel   |-> finding.riskLevel,
    category    |-> finding.category,
    matchedText |-> html_matched_text(finding),
    lineNumber  |-> html_line_number(finding) ]

\* The stat cards after the total: one per item of the stored riskLevelCount
\* whose count is above 0.
html_stat_cards(riskLevelCount) ==
  LET shown == SelectSeq(riskLevelCount, LAMBDA item : item.value > 0)
  IN [i \in 1..Len(shown) |->
        [level |-> shown[i].key, count |-> str(shown[i].value)]]

\* The text generate_html_report writes, by its interpolated parts; t is the
\* value of datetime.now() in the subtitle.
html_content(result, t) ==
  [ title         |-> result.name,
    name          |-> result.name,
    generatedAt   |-> t,
    projectId     |-> result.projectId,
    status        |-> result.status,
    targetCount   |-> str(Len(result.targets)),
    progress      |-> float_str(result.progress),
    totalFindings |-> str(result.summary.totalFindings),
    statCards     |-> html_stat_cards(result.summary.riskLevelCount),
    columns       |-> <<"index", "target", "rule", "risk level", "category",
                        "matched text", "line number">>,
    rows          |-> [i \in 1..Len(result.findings) |->
                         html_row(i, result.findings[i])] ]

\* ----------------------------------------------------- generate_json_report

\* {target: 1 for target in detection_result['targets']}
json_target_statistics(targets) ==
  LET keys == DictKeys(targets)
  IN [i \in 1..Len(keys) |-> [key |-> keys[i], value |-> 1]]

\* Fault variant of json_metadata: endTime taken from the clock as well.
json_metadata_end_now(result, t) ==
  [ detectionId   |-> result.id,
    name          |-> result.name,
    projectId     |-> result.projectId,
    generatedAt   |-> t,
    totalFindings |-> Len(result.findings),
    status        |-> result.status,
    startTime     |-> result.startTime,
    endTime       |-> t ]

\* report["metadata"]; t is the value of datetime.now().
json_metadata(result, t) ==
  [ detectionId   |-> result.id,
    name          |-> result.name,
    projectId     |-> result.projectId,
    generatedAt   |-> t,
    totalFindings |-> Len(result.findings),
    status        |-> result.status,
    startTime     |-> result.startTime,
    endTime       |-> result.endTime ]

\* The report dict that json.dump writes.  json.dump followed by a parse
\* returns the same strings, numbers, lists and string-keyed dicts, so the
\* file is modelled by the value it holds.
json_report(result, t) ==
  [ metadata |-> json_metadata(result, t),
    summary |->
      [ riskStatistics     |-> result.summary.riskLevelCount,
        categoryStatistics |-> result.summary.categoryCount,
        targetStatistics   |-> json_target_statistics(result.targets) ],
    findings |-> result.findings ]

\* ------------------------------------------------------ generate_csv_report

csv_headers ==
  <<"index", "target", "target type", "rule name", "risk level",
    "category", "matched text", "line number", "context", "found at">>

\* Fault variant of csv_matched_text: cuts at the display length itself.
csv_matched_text_ge(finding) ==
  IF Len(finding.matchedText) >= CsvMatchedLen
  THEN SubSeq(finding.matchedText, 1, CsvMatchedLen) \o Ellipsis
  ELSE finding.matchedText

csv_matched_text(finding) ==
  IF Len(finding.matchedText) > CsvMatchedLen
  THEN SubSeq(finding.matchedText, 1, CsvMatchedLen) \o Ellipsis
  ELSE finding.matchedText

\* finding.get('lineNumber', ''), as csv.writer prints it.
csv_line_number(finding) ==
  IF HasKey(finding, "lineNumber") THEN str(finding.lineNumber) ELSE <<>>

csv_context(finding) ==
  IF Len(finding.context) > CsvContextLen
  THEN SubSeq(finding.context, 1, CsvContextLen) \o Ellipsis
  ELSE finding.context

\* One data row: ten cells in the order of the headers.  A cell is the value
\* handed to csv.writer, which is also what a CSV reader gets back; the
\* quoting csv.writer puts around a cell with a comma, a quote or a newline
\* is not part of the cell.
csv_row(i, finding) ==
  << str(i),
     finding.target,
     finding.targetType,
     finding.ruleName,
     finding.riskLevel,
     finding.category,
     csv_matched_text(finding),
     csv_line_number(finding),
     csv_context(finding),
     finding.createdAt >>

csv_content(result) ==
  [ headers |-> csv_headers,
    rows    |-> [i \in 1..Len(result.findings) |->
                   csv_row(i, result.findings[i])] ]

\* ------------------------------------------------------ generate_txt_report

txt_matched_text(finding) ==
  IF Len(finding.matchedText) > TxtMatchedLen
  THEN SubSeq(finding.matchedText, 1, TxtMatchedLen) \o Ellipsis
  ELSE finding.matchedText

txt_context(finding) ==
  IF Len(finding.context) > TxtContextLen
  THEN SubSeq(finding.context, 1, TxtContextLen) \o Ellipsis
  ELSE finding.context

\* if finding.get('lineNumber'): the key is there and its value is not 0.
txt_has_line_number(finding) ==
  HasKey(finding, "lineNumber") /\ finding.lineNumber # 0

\* if finding.get('context'): the key is there and the text is not empty.
txt_has_context(finding) ==
  HasKey(finding, "context") /\ finding.context # <<>>

\* One numbered finding block: a record of its labelled lines.  The lines of
\* the line number and of the context are printed only under their
\* conditions, so the record has the
\* fields lineNumber and context only then.
txt_block(i, finding) ==
  LET labels == {"index", "target", "targetType", "ruleName", "riskLevel",
                 "category", "matchedText", "createdAt"}
                \cup (IF txt_has_line_number(finding)
                      THEN {"lineNumber"} ELSE {})
                \cup (IF txt_has_context(finding) THEN {"context"} ELSE {})
  IN [label \in labels |->
        CASE label = "index"       -> str(i)
          [] label = "matchedText" -> txt_matched_text(finding)
          [] label = "lineNumber"  -> str(finding.lineNumber)
          [] label = "context"     -> txt_context(finding)
          [] OTHER                 -> finding[label]]

\* Fault variant of txt_blocks: enumerate without the start value 1.
txt_blocks_from_zero(findings) ==
  [i \in 1..Len(findings) |-> txt_block(i - 1, findings[i])]

\* for i, finding in enumerate(detection_result['findings'], 1)
txt_blocks(findings) ==
  [i \in 1..Len(findings) |-> txt_block(i, findings[i])]

\* The lines of a stored dict, one per item: "    key: count".
txt_count_lines(counts) ==
  [i \in 1..Len(counts) |->
     [key |-> counts[i].key, count |-> str(counts[i].value)]]

\* The text generate_txt_report writes, by its interpolated parts.
txt_content(result, t) ==
  [ name           |-> result.name,
    projectId      |-> result.projectId,
    startTime      |-> result.startTime,
    endTime        |-> result.endTime,
    status         |-> result.status,
    generatedAt    |-> t,
    totalFindings  |-> str(result.summary.totalFindings),
    riskLevels     |-> txt_count_lines(result.summary.riskLevelCount),
    categories     |-> txt_count_lines(result.summary.categoryCount),
    blocks         |-> txt_blocks(result.findings) ]

\* ----------------------------------------------------------------- actions

Init ==
  /\ now = 0
  /\ files = [format \in Formats |-> NoFile]
  /\ overwritten = [format |-> "none", content |-> NoFile]
  /\ Idle
  /\ \/ pc = "create" /\ detection_result = NoResult
     \/ pc = "call" /\ detection_result \in CallerResults

\* Time passes between two reads of the clock.
Tick ==
  /\ now < MaxClock
  /\ now' = now + 1
  /\ UNCHANGED <<pc, detection_result, files, overwritten>>
  /\ UNCHANGED <<scan, CONFIG, proc, tester>>

\* main: detection_result = create_mock_detection_result()
main_create ==
  /\ pc = "create"
  /\ detection_result' = create_mock_detection_result(now)
  /\ pc' = "html"
  /\ UNCHANGED <<files, overwritten, now>>
  /\ UNCHANGED <<scan, CONFIG, proc, tester>>

\* generate_html_report(detection_result), called by main or by a caller.
generate_html_report ==
  /\ pc \in {"html", "call"}
  /\ write_file("html", html_content(detection_result, now))
  /\ pc' = IF pc = "html" THEN "json" ELSE pc
  /\ UNCHANGED <<detection_result, now>>
  /\ UNCHANGED <<scan, CONFIG, proc, tester>>

\* Fault variant of generate_json_report: reverses the findings list of the
\* dict it was given before it writes the report.
generate_json_report_reversing ==
  /\ pc \in {"json", "call"}
  /\ detection_result' =
       [detection_result EXCEPT !.findings =
          [i \in 1..Len(@) |-> @[Len(@) + 1 - i]]]
  /\ write_file("json", json_report(detection_result', now))
  /\ pc' = IF pc = "json" THEN "csv" ELSE pc
  /\ UNCHANGED now
  /\ UNCHANGED <<scan, CONFIG, proc, tester>>

generate_json_report ==
  /\ pc \in {"json", "call"}
  /\ write_file("json", json_report(detection_result, now))
  /\ pc' = IF pc = "json" THEN "csv" ELSE pc
  /\ UNCHANGED <<detection_result, now>>
  /\ UNCHANGED <<scan, CONFIG, proc, tester>>

generate_csv_report ==
  /\ pc \in {"csv", "call"}
  /\ write_file("csv", csv_content(detection_result))
  /\ pc' = IF pc = "csv" THEN "txt" ELSE pc
  /\ UNCHANGED <<detection_result, now>>
  /\ UNCHANGED <<scan, CONFIG, proc, tester>>

generate_txt_report ==
  /\ pc \in {"txt", "call"}
  /\ write_file("txt", txt_content(detection_result, now))
  /\ pc' = IF pc = "txt" THEN "done" ELSE pc
  /\ UNCHANGED <<detection_result, now>>
  /\ UNCHANGED <<scan, CONFIG, proc, tester>>

Next ==
  \/ Tick
  \/ main_create
  \/ generate_html_report
  \/ generate_json_report
  \/ generate_csv_report
  \/ generate_txt_report

Spec == Init /\ [][Next]_vars

\* ------------------------------------------------ report requests (API)

\* Rank of a risk level: high > medium > low.
RiskRank(level) ==
  CASE level = "high"   -> 3
    [] level = "medium" -> 2
    [] level = "low"    -> 1

\* Whether finding a goes before finding b under the sort options.
SortsBefore(a, b, sortBy, sortOrder) ==
  /\ sortBy = "riskLevel"
  /\ IF sortOrder = "desc"
     THEN RiskRank(a.riskLevel) > RiskRank(b.riskLevel)
     ELSE RiskRank(a.riskLevel) < RiskRank(b.riskLevel)

\* Fault variant of sort_findings: the stored order, whatever the options.
sort_findings_stored_order(findings, sortBy, sortOrder) == findings

\* The findings in the order the options ask for; findings that the options
\* do not order keep their stored order.
RECURSIVE sort_findings(_, _, _)
sort_findings(findings, sortBy, sortOrder) ==
  IF findings = <<>> THEN <<>>
  ELSE LET front  == sort_findings(SubSeq(findings, 1, Len(findings) - 1),
                                   sortBy, sortOrder)
           last   == findings[Len(findings)]
           behind == {i \in 1..Len(front) :
                        SortsBefore(last, front[i], sortBy, sortOrder)}
           at     == IF behind = {} THEN Len(front) + 1
                     ELSE CHOOSE i \in behind : \A j \in behind : i <= j
       IN SubSeq(front, 1, at - 1) \o <<last>>
          \o SubSeq(front, at, Len(front))

\* render(result, format, options): the findings sorted, then the layout of
\* the format.
render(result, format, options, t) ==
  LET sorted == [result EXCEPT !.findings =
                   sort_findings(@, options.sortBy, options.sortOrder)]
  IN CASE format = "html" -> html_content(sorted, t)
       [] format = "json" -> json_report(sorted, t)
       [] format = "csv"  -> csv_content(sorted)
       [] format = "txt"  -> txt_content(sorted, t)

\* The body test_generate_reports posts for every format.
report_data(format) ==
  [ format         |-> format,
    includeSummary |-> TRUE,
    includeDetails |-> TRUE,
    sortBy         |-> "riskLevel",
    sortOrder      |-> "desc" ]

\* The platform serves a report request for a supported format.
render_report(format) ==
  /\ pc = "api"
  /\ write_file(format, render(detection_result, format,
                               report_data(format), now))
  /\ UNCHANGED <<pc, detection_result, now>>
  /\ UNCHANGED <<scan, CONFIG, proc, tester>>

ApiInit ==
  /\ now = 0
  /\ files = [format \in Formats |-> NoFile]
  /\ overwritten = [format |-> "none", content |-> NoFile]
  /\ Idle
  /\ pc = "api"
  /\ detection_result \in CallerResults \cup {create_mock_detection_result(0)}

ApiNext ==
  \/ Tick
  \/ \E format \in Formats : render_report(format)

SpecApi == ApiInit /\ [][ApiNext]_vars

\* ------------------------------------------------------------------ claims

HasResult == pc # "create"

FromMain == pc \in {"html", "json", "csv", "txt", "done"}

Findings == detection_result.findings

AsSet(seq) == {seq[i] : i \in DOMAIN seq}

RECURSIVE SumValues(_)
SumValues(counts) ==
  IF counts = <<>> THEN 0
  ELSE counts[Len(counts)].value
       + SumValues(SubSeq(counts, 1, Len(counts) - 1))

\* C1: in the JSON report, summary.targetStatistics maps each distinct target
\* of the detection result to the number of findings whose target it is (2
\* for a target with two findings, 0 for a target with none).
C1_TargetStatisticsCountFindings ==
  Written("json") =>
    LET stats == files["json"].summary.targetStatistics
    IN /\ {stats[i].key : i \in DOMAIN stats} = AsSet(detection_result.targets)
       /\ \A i \in DOMAIN stats :
            stats[i].value = Count(Findings, "target", stats[i].key)

\* C2: every report shows the summary of the findings list: the total and
\* the counts per risk level and per category in the report are the ones
\* counted from the findings, also when the stored summary says otherwise.
C2_SummaryComputedFromFindings ==
  HasResult =>
    LET fresh == SummaryOf(Findings)
    IN /\ Written("html") =>
            /\ files["html"].totalFindings = str(fresh.totalFindings)
            /\ AsSet(files["html"].statCards)
                 = AsSet(html_stat_cards(fresh.riskLevelCount))
       /\ Written("json") =>
            /\ files["json"].metadata.totalFindings = fresh.totalFindings
            /\ AsSet(files["json"].summary.riskStatistics)
                 = AsSet(fresh.riskLevelCount)
            /\ AsSet(files["json"].summary.categoryStatistics)
                 = AsSet(fresh.categoryCount)
       /\ Written("txt") =>
            /\ files["txt"].totalFindings = str(fresh.totalFindings)
            /\ AsSet(files["txt"].riskLevels)
                 = AsSet(txt_count_lines(fresh.riskLevelCount))
            /\ AsSet(files["txt"].categories)
                 = AsSet(txt_count_lines(fresh.categoryCount))

\* A text of at most limit characters is shown as it is; a longer one as its
\* first limit characters followed by "...".
ShownUpTo(text, shown, limit) ==
  /\ Len(text) <= limit => shown = text
  /\ Len(text) >= limit + 1 =>
       /\ Len(shown) = limit + Len(Ellipsis)
       /\ SubSeq(shown, 1, limit) = SubSeq(text, 1, limit)
       /\ SubSeq(shown, limit + 1, Len(shown)) = Ellipsis

\* C3: the HTML, CSV and TXT reports show the matched text of every finding
\* unchanged when it has at most 50, 100 and 200 characters, and as its first
\* 50, 100 and 200 characters followed by "..." when it has more.
C3_TruncationBoundary ==
  HasResult =>
    \A i \in DOMAIN Findings :
      LET text == Findings[i].matchedText
      IN /\ Written("html") =>
              ShownUpTo(text, files["html"].rows[i].matchedText, HtmlMatchedLen)
         /\ Written("csv") =>
              ShownUpTo(text, files["csv"].rows[i][7], CsvMatchedLen)
         /\ Written("txt") =>
              ShownUpTo(text, files["txt"].blocks[i].matchedText, TxtMatchedLen)

\* The three reports are written for findings with matched texts of exactly
\* and of one more than each display length.
C3_Witness ==
  /\ pc = "call"
  /\ Written("html") /\ Written("csv") /\ Written("txt")
  /\ \A limit \in {HtmlMatchedLen, CsvMatchedLen, TxtMatchedLen} :
       /\ \E i \in DOMAIN Findings : Len(Findings[i].matchedText) = limit
       /\ \E i \in DOMAIN Findings : Len(Findings[i].matchedText) = limit + 1
  /\ \E i \in DOMAIN Findings :
       Len(files["html"].rows[i].matchedText) = HtmlMatchedLen + Len(Ellipsis)

\* What a reader of the JSON report recovers of the detection result: the
\* fields the report holds, under the names of the detection result.
ParsedJsonReport(report) ==
  [ id        |-> report.metadata.detectionId,
    projectId |-> report.metadata.projectId,
    name      |-> report.metadata.name,
    status    |-> report.metadata.status,
    startTime |-> report.metadata.startTime,
    endTime   |-> report.metadata.endTime,
    targets   |-> [i \in DOMAIN report.summary.targetStatistics |->
                     report.summary.targetStatistics[i].key],
    findings  |-> report.findings,
    summary   |-> [ totalFindings  |-> report.metadata.totalFindings,
                    riskLevelCount |-> report.summary.riskStatistics,
                    categoryCount  |-> report.summary.categoryStatistics ] ]

\* C4: parsing the JSON report gives back every field of the detection
\* result: id, projectId, name, targets, status, startTime, endTime, progress,
\* findings, summary, totalCount and finishCount.
C4_JsonRoundTrip ==
  Written("json") =>
    LET parsed == ParsedJsonReport(files["json"])
    IN \A field \in {"id", "projectId", "name", "targets", "status",
                     "startTime", "endTime", "progress", "findings",
                     "summary", "totalCount", "finishCount"} :
         /\ field \in DOMAIN parsed
         /\ parsed[field] = detection_result[field]

NoLineNumber(finding) ==
  ~HasKey(finding, "lineNumber") \/ finding.lineNumber = 0

\* C5: every report has, for every finding, the target, rule name, risk
\* level, category, matched text and line number; for a finding whose
\* lineNumber is absent or 0 the line-number position is there and holds a
\* placeholder, not 0.
C5_SameFieldsWithLinePlaceholder ==
  HasResult =>
    \A i \in DOMAIN Findings :
      LET missing == NoLineNumber(Findings[i])
      IN /\ Written("html") =>
              /\ DOMAIN files["html"].rows[i] =
                   {"index", "target", "ruleName", "riskLevel", "category",
                    "matchedText", "lineNumber"}
              /\ missing => files["html"].rows[i].lineNumber # str(0)
         /\ Written("csv") =>
              (missing => files["csv"].rows[i][8] # str(0))
         /\ Written("txt") =>
              /\ {"index", "target", "ruleName", "riskLevel", "category",
                  "matchedText", "lineNumber"}
                   \subseteq DOMAIN files["txt"].blocks[i]
              /\ missing => files["txt"].blocks[i].lineNumber # str(0)
         /\ Written("json") =>
              /\ {"target", "ruleName", "riskLevel", "category",
                  "matchedText", "lineNumber"}
                   \subseteq DOMAIN files["json"].findings[i]
              /\ missing => files["json"].findings[i].lineNumber # 0

\* The risk levels of the findings of a report, in the order of the report.
ReportedRiskLevels(format) ==
  CASE format = "html" ->
         [i \in DOMAIN files["html"].rows |-> files["html"].rows[i].riskLevel]
    [] format = "json" ->
         [i \in DOMAIN files["json"].findings |->
            files["json"].findings[i].riskLevel]
    [] format = "csv" ->
         [i \in DOMAIN files["csv"].rows |-> files["csv"].rows[i][5]]
    [] format = "txt" ->
         [i \in DOMAIN files["txt"].blocks |->
            files["txt"].blocks[i].riskLevel]

C7_SummaryMatchesFindings ==
  FromMain =>
    LET summary == detection_result.summary
        risks   == summary.riskLevelCount
        cats    == summary.categoryCount
    IN /\ summary.totalFindings = Len(Findings)
       /\ SumValues(risks) = summary.totalFindings
       /\ Len(risks) = 3
       /\ {risks[i].key : i \in DOMAIN risks} = {"low", "medium", "high"}
       /\ {cats[i].key : i \in DOMAIN cats}
            = {Findings[i].category : i \in DOMAIN Findings}
       /\ Len(cats) = Cardinality({cats[i].key : i \in DOMAIN cats})
       /\ SumValues(cats) = summary.totalFindings

\* main created the detection result and rendered it.
C7_Witness ==
  /\ pc = "done"
  /\ Len(Findings) = 3
  /\ detection_result.summary.totalFindings = 3

\* C8: for the fixture, riskLevelCount is high 2, medium 1, low 0 and
\* categoryCount is api_key 1, password 1, jwt_secret 1; the TXT report shows
\* the total 3 and three finding blocks numbered 1, 2, 3 in the stored order
\* api_key, password, jwt_secret.
C8_FixtureEndToEnd ==
  FromMain =>
    /\ AsSet(detection_result.summary.riskLevelCount) =
         { [key |-> "high", value |-> 2], [key |-> "medium", value |-> 1],
           [key |-> "low", value |-> 0] }
    /\ AsSet(detection_result.summary.categoryCount) =
         { [key |-> "api_key", value |-> 1], [key |-> "password", value |-> 1],
           [key |-> "jwt_secret", value |-> 1] }
    /\ Written("txt") =>
         LET blocks == files["txt"].blocks
         IN /\ files["txt"].totalFindings = <<"3">>
            /\ [i \in DOMAIN blocks |-> blocks[i].index]
                 = << <<"1">>, <<"2">>, <<"3">> >>
            /\ [i \in DOMAIN blocks |-> blocks[i].category]
                 = <<"api_key", "password", "jwt_secret">>

\* main wrote the TXT report of the fixture.
C8_Witness ==
  /\ pc = "done"
  /\ Written("txt")
  /\ Len(files["txt"].blocks) = 3

\* A report with its generation time blanked.
Masked(format, content) ==
  CASE format \in {"html", "txt"} -> [content EXCEPT !.generatedAt = 0]
    [] format = "json" -> [content EXCEPT !.metadata.generatedAt = 0]
    [] OTHER -> content

\* C9: a report that replaces an earlier report of the same detection result
\* in the same format equals it once the generation time field of both is
\* blanked: nothing else in the report depends on the time of rendering.
C9_SameReportApartFromGenerationTime ==
  overwritten.content # NoFile =>
    Masked(overwritten.format, files[overwritten.format])
      = Masked(overwritten.format, overwritten.content)

\* A JSON report replaced one that was generated at another time.
C9_Witness ==
  /\ overwritten.content # NoFile
  /\ overwritten.format = "json"
  /\ overwritten.content.metadata.generatedAt
       # files["json"].metadata.generatedAt

\* C10: a generator leaves the detection result it is given as it was and
\* writes the file of its format only.
C10_RenderingLeavesResultUnchanged ==
  [][ HasResult =>
        /\ detection_result' = detection_result
        /\ \A format \in Formats :
             files'[format] # files[format] => overwritten'.format = format
    ]_vars

\* A caller ran all four generators and one of them again.
C10_Witness ==
  /\ pc = "call"
  /\ \A format \in Formats : Written(format)
  /\ overwritten.content # NoFile
  /\ Len(Findings) > 1

\* ------------------------------------------- hello_plugin.py: the plugin

\* Values a parameter of the plugin is given.
ParamValues == {"Ann", ""}

\* The keys of the two entries of PLUGIN_INFO["params"].
ParamKeys == {"name", "greeting"}

JsonObjects ==
  { JsonObject(object) :
      object \in UNION { [keys -> ParamValues] : keys \in SUBSET ParamKeys } }

JsonArrays == { JsonArray(<<>>), JsonArray(<<"name">>) }

\* The empty text (nothing on standard input) and a text that is not JSON.
NotJson == { NotJsonText(""), NotJsonText("name=Ann") }

\* info and cleanup take no argument.
NoArgument == NotJsonText("no argument")

Stdins == JsonObjects \cup JsonArrays \cup NotJson

Commands == {"info", "init", "execute", "validate", "cleanup"}

\* sys.argv: the script alone, with a command, with an argument that is not
\* a command.
Argvs ==
  { <<"hello_plugin.py">> }
  \cup { <<"hello_plugin.py", command>> :
           command \in Commands \cup {"status", "INFO", ""} }

\* A call returns a value or raises.
Returned(value) == [raised |-> FALSE, value |-> value]
Raised(exception) == [raised |-> TRUE, exception |-> exception]

\* json.dumps(document): the text of one JSON document.
json_dumps(document) == [kind |-> "json", document |-> document]

\* PLUGIN_INFO, its two datetime.now() reading t when the module is loaded.
PLUGIN_INFO(t) ==
  [ id          |-> "hello_plugin_python",
    name        |-> "Hello Plugin (Python)",
    version     |-> "1.0.0",
    type        |-> "utility",
    author      |-> "StellarServer Team",
    description |-> "A simple example plugin written in Python",
    category    |-> "example",
    tags        |-> <<"example", "hello", "utility", "python">>,
    created_at  |-> t,
    updated_at  |-> t,
    params      |->
      << [ name |-> "name", type |-> "string", description |-> "Your name",
           required |-> TRUE, default |-> "World" ],
         [ name |-> "greeting", type |-> "string",
           description |-> "Greeting message", required |-> FALSE,
           default |-> "Hello",
           options |-> <<"Hello", "Hi", "Hey", "Greetings">> ] >>,
    language    |-> "Python" ]

info(t) == Returned(PLUGIN_INFO(t))

\* init(config_json): what it returns; the action assigns CONFIG.
init(config_json) ==
  IF config_json.kind = "invalid" THEN Raised("JSONDecodeError")
  ELSE Returned([success |-> TRUE])

\* params.get(key, default)
get(params, key, default) ==
  IF key \in DOMAIN params THEN params[key] ELSE default

\* execute(params_json), datetime.now() reading t.  A list has no get.
execute(params_json, t) ==
  CASE params_json.kind = "invalid" -> Raised("JSONDecodeError")
    [] params_json.kind = "array" -> Raised("AttributeError")
    [] OTHER ->
        LET name == get(params_json.object, "name", "World")
            greeting == get(params_json.object, "greeting", "Hello")
        IN Returned(json_dumps(
             [ success  |-> TRUE,
               data     |-> <<greeting, ", ", name, "!">>,
               message  |-> "Plugin executed successfully",
               metadata |-> [timestamp |-> t] ]))

\* "name" in params: a key of a dict, an element of a list.
contains(params_json, key) ==
  IF params_json.kind = "object" THEN key \in DOMAIN params_json.object
  ELSE \E i \in 1..Len(params_json.items) : params_json.items[i] = key

MissingName ==
  json_dumps([success |-> FALSE, error |-> "Missing required parameter: name"])

Success == json_dumps([success |-> TRUE])

\* validate with the test `if not params.get("name")` in place of
\* `if "name" not in params`.
validate_truthy(params_json) ==
  CASE params_json.kind = "invalid" -> Raised("JSONDecodeError")
    [] params_json.kind = "array" -> Raised("AttributeError")
    [] OTHER -> IF get(params_json.object, "name", "") = ""
                THEN Returned(MissingName) ELSE Returned(Success)

\* validate(params_json)
validate(params_json) ==
  IF params_json.kind = "invalid" THEN Raised("JSONDecodeError")
  ELSE IF ~contains(params_json, "name") THEN Returned(MissingName)
  ELSE Returned(Success)

cleanup == Returned(Success)

\* The process left with a status, standard output holding the lines.
exited(lines, status) ==
  [ pc |-> "exited", argv |-> proc.argv, stdin |-> proc.stdin,
    loaded |-> proc.loaded, stdout |-> lines, exit |-> status ]

\* __main__ reached the branch of the command.
Dispatched(command) ==
  /\ proc.pc = "main"
  /\ Len(proc.argv) >= 2
  /\ proc.argv[2] = command

\* print(text) of what the call returned, then the end of the script; an
\* exception nobody catches ends the process with status 1, its traceback
\* on standard error.
print_and_exit(outcome, text) ==
  proc' = IF outcome.raised THEN exited(<<>>, 1) ELSE exited(<<text>>, 0)

\* A program that imported the module called the function.
Called(function, input, outcome) ==
  /\ proc.pc = "imported"
  /\ proc' = [ pc |-> "imported", loaded |-> proc.loaded, call |-> function,
               input |-> input, outcome |-> outcome ]

\* The state the plugin has no part in, the clock aside.
NotOfPlugin == <<pc, detection_result, files, overwritten, scan, tester>>

\* if len(sys.argv) < 2
plugin_usage ==
  /\ proc.pc = "main"
  /\ Len(proc.argv) < 2
  /\ proc' = exited(<<[kind |-> "text",
                       text |-> "Usage: hello_plugin.py <command> [args]"]>>, 1)
  /\ UNCHANGED <<CONFIG, now, NotOfPlugin>>

plugin_info ==
  /\ \/ Dispatched("info")
        /\ print_and_exit(info(proc.loaded), json_dumps(info(proc.loaded).value))
     \/ Called("info", NoArgument, info(proc.loaded))
  /\ UNCHANGED <<CONFIG, now, NotOfPlugin>>

\* init: json.loads raises before CONFIG is assigned.
plugin_init ==
  /\ \/ /\ Dispatched("init")
        /\ print_and_exit(init(proc.stdin), json_dumps(init(proc.stdin).value))
        /\ CONFIG' = IF init(proc.stdin).raised THEN CONFIG ELSE proc.stdin
     \/ \E config_json \in Stdins :
          /\ Called("init", config_json, init(config_json))
          /\ CONFIG' = IF init(config_json).raised THEN CONFIG ELSE config_json
  /\ UNCHANGED <<now, NotOfPlugin>>

plugin_execute ==
  /\ \/ /\ Dispatched("execute")
        /\ print_and_exit(execute(proc.stdin, now), execute(proc.stdin, now).value)
     \/ \E params_json \in Stdins :
          Called("execute", params_json, execute(params_json, now))
  /\ UNCHANGED <<CONFIG, now, NotOfPlugin>>

plugin_validate ==
  /\ \/ /\ Dispatched("validate")
        /\ print_and_exit(validate(proc.stdin), validate(proc.stdin).value)
     \/ \E params_json \in Stdins :
          Called("validate", params_json, validate(params_json))
  /\ UNCHANGED <<CONFIG, now, NotOfPlugin>>

plugin_cleanup ==
  /\ \/ Dispatched("cleanup") /\ print_and_exit(cleanup, cleanup.value)
     \/ Called("cleanup", NoArgument, cleanup)
  /\ UNCHANGED <<CONFIG, now, NotOfPlugin>>

\* else: the command is none of the five.
plugin_unknown_command ==
  /\ proc.pc = "main"
  /\ Len(proc.argv) >= 2
  /\ proc.argv[2] \notin Commands
  /\ proc' = exited(
       <<json_dumps([ success |-> FALSE,
                      error |-> <<"Unknown command: ", proc.argv[2]>> ])>>, 1)
  /\ UNCHANGED <<CONFIG, now, NotOfPlugin>>

\* The module was just loaded: run as a script with a command line and a
\* standard input, or imported by a program that calls its functions.
PluginInit ==
  /\ now = 0
  /\ pc = "plugin"
  /\ detection_result = NoResult
  /\ files = [format \in Formats |-> NoFile]
  /\ overwritten = [format |-> "none", content |-> NoFile]
  /\ scan = NoScan
  /\ tester = NoTester
  /\ CONFIG = EmptyConfig
  /\ \/ \E argv \in Argvs, stdin \in Stdins :
          proc = [pc |-> "main", argv |-> argv, stdin |-> stdin, loaded |-> now]
     \/ proc = [pc |-> "imported", loaded |-> now, call |-> "import",
                input |-> NoArgument,
                outcome |-> Returned([module |-> "hello_plugin"])]

PluginNext ==
  \/ Tick
  \/ plugin_usage
  \/ plugin_info
  \/ plugin_init
  \/ plugin_execute
  \/ plugin_validate
  \/ plugin_cleanup
  \/ plugin_unknown_command

SpecPlugin == PluginInit /\ [][PluginNext]_vars

\* validate ran: as the command of the script, or called by an importer.
ValidateRan ==
  \/ proc.pc = "exited" /\ Len(proc.argv) >= 2 /\ proc.argv[2] = "validate"
  \/ proc.pc = "imported" /\ proc.call = "validate"

ValidateInput == IF proc.pc = "exited" THEN proc.stdin ELSE proc.input

\* The JSON document validate gave back: printed by the script (which then
\* ended with status 0), or returned to the importer.
ValidateGave(document) ==
  IF proc.pc = "exited"
  THEN proc.stdout = <<[kind |-> "json", document |-> document]>>
       /\ proc.exit = 0
  ELSE proc.outcome =
         [raised |-> FALSE, value |-> [kind |-> "json", document |-> document]]

\* The object without its key greeting.
WithoutGreeting(params) ==
  [key \in DOMAIN params \ {"greeting"} |-> params[key]]

\* C12: for every JSON object of parameters, validate returns {success: true}
\* exactly when the object has the key name, and otherwise {success: false,
\* error: "Missing required parameter: name"}; the key greeting makes no
\* difference to what it returns; validate leaves CONFIG as it was.
C12_ValidateRequiresName ==
  [][ (ValidateRan /\ ValidateInput.kind = "object")' =>
        /\ IF "name" \in DOMAIN ValidateInput'.object
           THEN ValidateGave([success |-> TRUE])'
           ELSE ValidateGave(
                  [ success |-> FALSE,
                    error |-> "Missing required parameter: name" ])'
        /\ validate(JsonObject(WithoutGreeting(ValidateInput'.object)))
             = validate(ValidateInput')
        /\ CONFIG' = CONFIG ]_vars

\* An importer set CONFIG with init and then called validate with an object
\* that has greeting and no name; a script validated an object whose name
\* is the empty string.
C12_Witness ==
  \/ /\ proc.pc = "imported"
     /\ proc.call = "validate"
     /\ proc.input.kind = "object"
     /\ DOMAIN proc.input.object = {"greeting"}
     /\ proc.outcome.value.document.success = FALSE
     /\ CONFIG # EmptyConfig
  \/ /\ proc.pc = "exited"
     /\ Len(proc.argv) >= 2
     /\ proc.argv[2] = "validate"
     /\ proc.stdin.kind = "object"
     /\ DOMAIN proc.stdin.object = {"name", "greeting"}
     /\ proc.stdin.object["name"] = ""
     /\ proc.exit = 0

\* C13: each of the commands info, init, execute, validate and cleanup
\* prints exactly one JSON document and exits with status 0; any other
\* command prints {success: false, error: "Unknown command: <command>"} and
\* exits with status 1; no command prints the usage line and exits with
\* status 1; no command other than init changes CONFIG.
C13_CommandProtocol ==
  proc.pc = "exited" =>
    /\ IF Len(proc.argv) < 2
       THEN /\ proc.stdout =
                 <<[ kind |-> "text",
                     text |-> "Usage: hello_plugin.py <command> [args]" ]>>
            /\ proc.exit = 1
       ELSE IF proc.argv[2] \in Commands
       THEN /\ Len(proc.stdout) = 1
            /\ proc.stdout[1].kind = "json"
            /\ proc.exit = 0
       ELSE /\ proc.stdout =
                 <<[ kind |-> "json",
                     document |->
                       [ success |-> FALSE,
                         error |-> <<"Unknown command: ", proc.argv[2]>> ] ]>>
            /\ proc.exit = 1
    /\ (Len(proc.argv) < 2 \/ proc.argv[2] # "init") =>
         CONFIG = JsonObject(EmptyDict)

\* ------------------------------- test_sensitive_report.py: the test script

\* What requests.post / requests.get gives: a response with a status code,
\* or an exception (no connection).
Response(raised, status_code, utf8) ==
  [raised |-> raised, status_code |-> status_code, utf8 |-> utf8]

Responses ==
  { Response(FALSE, 200, TRUE), Response(FALSE, 500, TRUE),
    Response(TRUE, 0, TRUE) }

\* A download may also answer 200 with content that is not UTF-8 text.
DownloadResponses == Responses \cup {Response(FALSE, 200, FALSE)}

\* No request was sent, so there is no answer.
NotAsked == Response(FALSE, 0, FALSE)

\* What the body of a 200 response holds for an id the script reads: the
\* id, no such key (dict.get gives None), or a body response.json() rejects.
Bodies(id) == {id, "None", "invalid"}

\* One request the script sent, with the answer it got.
Request(method, url, format, response) ==
  [method |-> method, url |-> url, format |-> format, response |-> response]

\* What a test method does on the answer to its request: raises when the
\* request or response.json() raises, returns True on status 200 and False
\* on any other status.
answer(response, body) ==
  IF response.raised THEN "raised"
  ELSE IF response.status_code = 200
  THEN (IF body = "invalid" THEN "raised" ELSE "True")
  ELSE "False"

\* run_all_tests, the order of its six if-statements.
StepOrder ==
  << "test_authentication", "test_create_project",
     "test_create_sensitive_rule", "test_create_test_file",
     "test_sensitive_detection", "test_generate_reports" >>

\* run_all_tests with `if not self.step(): pass` for its early returns.
run_all_tests_no_early_return(t, i, outcome) ==
  [ t EXCEPT
      !.steps = Append(@, [step |-> StepOrder[i], outcome |-> outcome]),
      !.pc = IF i < Len(StepOrder) /\ outcome # "raised"
             THEN StepOrder[i + 1] ELSE "finally",
      !.returns = (outcome = "True") ]

\* run_all_tests after its i-th step gave the outcome: the next step when
\* it returned True, otherwise the finally block with the value to return
\* (True after the sixth step, False after a False or an exception).
run_all_tests(t, i, outcome) ==
  [ t EXCEPT
      !.steps = Append(@, [step |-> StepOrder[i], outcome |-> outcome]),
      !.pc = IF i < Len(StepOrder) /\ outcome = "True"
             THEN StepOrder[i + 1] ELSE "finally",
      !.returns = (outcome = "True") ]

\* formats = ["html", "json", "csv", "xml", "txt"]
formats == <<"html", "json", "csv", "xml", "txt">>

\* The server's answers for one format: to the generate request and, when
\* that gave 200, to the download request.
FormatReplies ==
  { reply \in [generate : Responses, download : DownloadResponses \cup {NotAsked}] :
      (~reply.generate.raised /\ reply.generate.status_code = 200)
        <=> (reply.download # NotAsked) }

\* test_download_report(format_type): the tester after it, and whether it
\* returned (None) or raised.  The preview decodes the content of the four
\* text formats after the file is saved.
test_download_report(t, format_type, response) ==
  LET asked == [t EXCEPT !.requests =
                  Append(@, Request("GET", "report/format", format_type,
                                    response))]
      saved == [asked EXCEPT !.reports = @ \cup {format_type}]
  IN IF response.raised THEN [tester |-> asked, outcome |-> "raised"]
     ELSE IF response.status_code = 200
     THEN IF format_type \in {"html", "json", "txt", "xml"} /\ ~response.utf8
          THEN [tester |-> saved, outcome |-> "raised"]
          ELSE [tester |-> saved, outcome |-> "None"]
     ELSE [tester |-> asked, outcome |-> "None"]

\* The for loop of test_generate_reports from its i-th format on, and the
\* return True after it.
RECURSIVE generate_loop(_, _, _)
generate_loop(t, i, replies) ==
  IF i > Len(formats) THEN [tester |-> t, outcome |-> "True"]
  ELSE
    LET response == replies[i].generate
        asked == [t EXCEPT !.requests =
                    Append(@, Request("POST", "report", formats[i], response))]
        download == test_download_report(asked, formats[i],
                                         replies[i].download)
    IN IF response.raised THEN [tester |-> asked, outcome |-> "raised"]
       ELSE IF response.status_code = 200
       THEN IF download.outcome = "raised" THEN download
            ELSE generate_loop(download.tester, i + 1, replies)
       ELSE generate_loop(asked, i + 1, replies)

\* if not self.detection_id
no_detection_id(t) == t.detection_id \in {"None", ""}

\* test_generate_reports returning False when a format was not generated.
test_generate_reports_all_or_nothing(t, replies) ==
  LET ran == generate_loop(t, 1, replies)
  IN IF no_detection_id(t) THEN [tester |-> t, outcome |-> "False"]
     ELSE IF ran.outcome = "True"
             /\ \E i \in 1..Len(formats) :
                  replies[i].generate.status_code # 200
     THEN [ran EXCEPT !.outcome = "False"]
     ELSE ran

\* test_generate_reports(): the tester after it and what it returned.
test_generate_reports(t, replies) ==
  IF no_detection_id(t) THEN [tester |-> t, outcome |-> "False"]
  ELSE generate_loop(t, 1, replies)

\* The state the test script has no part in.
NotOfTester ==
  <<pc, detection_result, files, overwritten, now, scan, CONFIG, proc>>

\* The tester is at the i-th step of run_all_tests.
At(i) == tester.pc = StepOrder[i]

\* The registration request, its answer ignored and its exception
\* swallowed; then the login request.
step_test_authentication ==
  /\ At(1)
  /\ \E register \in Responses, login \in Responses, token \in Bodies("token") :
       LET sent == [tester EXCEPT
                      !.requests = @ \o
                        << Request("POST", "auth/register", "none", register),
                           Request("POST", "auth/login", "none", login) >>,
                      !.token = IF answer(login, token) = "True"
                                THEN token ELSE @]
       IN tester' = run_all_tests(sent, 1, answer(login, token))
  /\ UNCHANGED NotOfTester

step_test_create_project ==
  /\ At(2)
  /\ \E response \in Responses, id \in Bodies("project1") :
       LET sent == [tester EXCEPT
                      !.requests =
                        Append(@, Request("POST", "projects", "none", response)),
                      !.project_id = IF answer(response, id) = "True"
                                     THEN id ELSE @]
       IN tester' = run_all_tests(sent, 2, answer(response, id))
  /\ UNCHANGED NotOfTester

step_test_create_sensitive_rule ==
  /\ At(3)
  /\ \E response \in Responses, id \in Bodies("rule1") :
       LET sent == [tester EXCEPT
                      !.requests =
                        Append(@, Request("POST", "rules", "none", response)),
                      !.rule_id = IF answer(response, id) = "True"
                                  THEN id ELSE @]
       IN tester' = run_all_tests(sent, 3, answer(response, id))
  /\ UNCHANGED NotOfTester

\* The temporary file is written and True returned, or writing it raises
\* and test_file_path is not set.
step_test_create_test_file ==
  /\ At(4)
  /\ \/ tester' = run_all_tests([tester EXCEPT !.test_file = "exists"],
                                4, "True")
     \/ tester' = run_all_tests(tester, 4, "raised")
  /\ UNCHANGED NotOfTester

step_test_sensitive_detection ==
  /\ At(5)
  /\ \E response \in Responses, taskId \in Bodies("task1") \cup {""} :
       LET sent == [tester EXCEPT
                      !.requests =
                        Append(@, Request("POST", "scan", "none", response)),
                      !.detection_id = IF answer(response, taskId) = "True"
                                       THEN taskId ELSE @]
       IN tester' = run_all_tests(sent, 5, answer(response, taskId))
  /\ UNCHANGED NotOfTester

step_test_generate_reports ==
  /\ At(6)
  /\ \E replies \in [1..Len(formats) -> FormatReplies] :
       LET ran == test_generate_reports(tester, replies)
       IN tester' = run_all_tests(ran.tester, 6, ran.outcome)
  /\ UNCHANGED NotOfTester

\* finally: self.cleanup(), then run_all_tests returns the value it held.
\* cleanup deletes the test file if there is one and every report file.
finally_cleanup ==
  /\ tester.pc = "finally"
  /\ tester' = [tester EXCEPT
                  !.test_file = IF @ = "exists" THEN "deleted" ELSE @,
                  !.reports = {},
                  !.cleanups = @ + 1,
                  !.pc = "returned"]
  /\ UNCHANGED NotOfTester

\* tester = SensitiveReportTester(); tester.run_all_tests() is entered.
TesterInit ==
  /\ now = 0
  /\ pc = "tester"
  /\ detection_result = NoResult
  /\ files = [format \in Formats |-> NoFile]
  /\ overwritten = [format |-> "none", content |-> NoFile]
  /\ scan = NoScan
  /\ CONFIG = EmptyConfig
  /\ proc = NoProcess
  /\ tester = [ pc |-> StepOrder[1], token |-> "None", project_id |-> "None",
                rule_id |-> "None", detection_id |-> "None",
                test_file |-> "no attribute", requests |-> <<>>,
                reports |-> {}, steps |-> <<>>, cleanups |-> 0,
                returns |-> FALSE ]

TesterNext ==
  \/ step_test_authentication
  \/ step_test_create_project
  \/ step_test_create_sensitive_rule
  \/ step_test_create_test_file
  \/ step_test_sensitive_detection
  \/ step_test_generate_reports
  \/ finally_cleanup

SpecTester == TesterInit /\ [][TesterNext]_vars

\* The steps run_all_tests started so far, each with what it gave.
Steps == tester.steps

AllTrue(steps) == \A i \in 1..Len(steps) : steps[i].outcome = "True"

RunEnded == tester.pc \in {"finally", "returned"}

\* C14: run_all_tests runs its steps in the order authentication, create
\* project, create rule, create test file, detection, report generation; a
\* step is started only if every earlier step returned True; the run returns
\* True only if all six steps returned True, and returns False at the first
\* step that returns False or raises; cleanup is executed exactly once, at
\* the end of every run, whichever step the run stopped at.
C14_RunAllTests ==
  /\ Len(Steps) <= Len(StepOrder)
  /\ \A i \in 1..Len(Steps) : Steps[i].step = StepOrder[i]
  /\ AllTrue(SubSeq(Steps, 1, Len(Steps) - 1))
  /\ ~RunEnded => AllTrue(Steps) /\ tester.pc = StepOrder[Len(Steps) + 1]
  /\ RunEnded =>
       /\ Steps # <<>>
       /\ tester.returns = (Len(Steps) = Len(StepOrder) /\ AllTrue(Steps))
       /\ ~tester.returns => Steps[Len(Steps)].outcome \in {"False", "raised"}
  /\ tester.cleanups = IF tester.pc = "returned" THEN 1 ELSE 0
  /\ tester.pc # "returned" => ENABLED TesterNext

\* The run stopped at the detection step, which returned False, after the
\* test file was created; cleanup ran once and deleted the file.
C14_Witness ==
  /\ tester.pc = "returned"
  /\ Len(Steps) = 5
  /\ Steps[5].outcome = "False"
  /\ ~tester.returns
  /\ tester.cleanups = 1
  /\ tester.test_file = "deleted"

\* The requests test_generate_reports and test_download_report sent.
ReportRequests ==
  SelectSeq(tester.requests,
            LAMBDA request : request.url \in {"report", "report/format"})

GenerateRequests ==
  SelectSeq(ReportRequests, LAMBDA request : request.method = "POST")

IsOk(response) == ~response.raised /\ response.status_code = 200

\* test_generate_reports ran and gave the outcome.
GenerateReportsGave(outcome) ==
  /\ Len(Steps) = Len(StepOrder)
  /\ Steps[Len(StepOrder)].outcome = outcome

MaxTargets == 3

Targets == {FileTarget, UrlTarget}

TargetLists == UNION { [1..n -> Targets] : n \in 1..MaxTargets }

\* What matching one target hands to the aggregator: a failure (unreachable
\* URL, unreadable file), or the target's findings, none or some.
TargetResults(target) ==
  LET targetType == IF target = FileTarget THEN "file" ELSE "url"
  IN { [failed |-> TRUE, findings |-> <<>>],
       [failed |-> FALSE, findings |-> <<>>],
       [failed |-> FALSE,
        findings |-> << Finding("api_key_rule", target, targetType, "high",
                                "api_key", "API key detection",
                                Text(32), Text(40)) >>] }

\* The result before any target is merged.
scan_start(targets) ==
  [ targets     |-> targets,
    status      |-> "running",
    findings    |-> <<>>,
    summary     |-> SummaryOf(<<>>),
    totalCount  |-> Len(targets),
    finishCount |-> 0,
    pending     |-> 1..Len(targets),
    merged      |-> <<>> ]

\* An aggregator that gives up the findings gathered so far when a target
\* fails.
aggregate_discarding(result, target_result) ==
  LET findings == IF target_result.failed THEN <<>>
                  ELSE result.findings \o target_result.findings
  IN [ result EXCEPT
         !.finishCount = @ + 1,
         !.findings = findings,
         !.summary = SummaryOf(findings),
         !.status = IF target_result.failed THEN "failed"
                    ELSE IF result.finishCount + 1 = result.totalCount
                            /\ @ # "failed"
                    THEN "completed" ELSE @ ]

\* The aggregator merges the result of one target: finishCount advances, the
\* target's findings are appended and the summary folded over them; a
\* failure adds nothing and makes the status failed, which it then stays;
\* the status becomes completed with the last target if none failed.
aggregate(result, target_result) ==
  LET findings == IF target_result.failed THEN result.findings
                  ELSE result.findings \o target_result.findings
  IN [ result EXCEPT
         !.finishCount = @ + 1,
         !.findings = findings,
         !.summary = SummaryOf(findings),
         !.status = IF target_result.failed THEN "failed"
                    ELSE IF result.finishCount + 1 = result.totalCount
                            /\ @ # "failed"
                    THEN "completed" ELSE @ ]

\* Matching of a pending target ended, in whatever order the workers end,
\* and its result is merged.
target_done ==
  /\ scan.status # "idle"
  /\ \E i \in scan.pending :
       \E target_result \in TargetResults(scan.targets[i]) :
         scan' = [ aggregate(scan, target_result) EXCEPT
                     !.pending = @ \ {i},
                     !.merged = Append(@, [ index |-> i,
                                            failed |-> target_result.failed,
                                            findings |-> target_result.findings ]) ]
  /\ UNCHANGED <<pc, detection_result, files, overwritten, now, CONFIG, proc,
                 tester>>

ScanInit ==
  /\ now = 0
  /\ pc = "scan"
  /\ detection_result = NoResult
  /\ files = [format \in Formats |-> NoFile]
  /\ overwritten = [format |-> "none", content |-> NoFile]
  /\ CONFIG = EmptyConfig
  /\ proc = NoProcess
  /\ tester = NoTester
  /\ \E targets \in TargetLists : scan = scan_start(targets)

ScanNext == target_done

SpecScan == ScanInit /\ [][ScanNext]_vars

\* The findings of the targets merged so far that did not fail, in the order
\* they were merged.
RECURSIVE GatheredFrom(_)
GatheredFrom(merged) ==
  IF merged = <<>> THEN <<>>
  ELSE GatheredFrom(SubSeq(merged, 1, Len(merged) - 1))
         \o (IF merged[Len(merged)].failed THEN <<>>
             ELSE merged[Len(merged)].findings)

SomeFailed == \E k \in 1..Len(scan.merged) : scan.merged[k].failed

IsPrefix(s, t) == Len(s) <= Len(t) /\ SubSeq(t, 1, Len(s)) = s

\* C11: when matching of a target fails, finishCount still increases by one
\* and no findings are added for that target; the remaining targets are
\* still processed; findings gathered from successful targets are never
\* removed; finishCount never exceeds totalCount; the result ends with
\* status failed, and status completed is reached exactly when
\* finishCount = totalCount and no target failed.
C11_PartialFailure ==
  /\ [] /\ scan.finishCount <= scan.totalCount
        /\ scan.finishCount = Len(scan.merged)
        /\ scan.findings = GatheredFrom(scan.merged)
        /\ scan.finishCount < scan.totalCount => ENABLED target_done
        /\ SomeFailed => scan.status = "failed"
        /\ scan.status = "completed" <=>
             (scan.finishCount = scan.totalCount /\ ~SomeFailed)
  /\ [][ /\ scan'.finishCount = scan.finishCount + 1
         /\ IsPrefix(scan.findings, scan'.findings)
         /\ scan'.merged[Len(scan'.merged)].failed =>
              /\ scan'.findings = scan.findings
              /\ scan'.status = "failed" ]_vars

\* Three targets: the first gave a finding, the second failed, the third
\* gave a finding after that; the result is failed and holds both findings.
C11_Witness ==
  /\ scan.totalCount = 3
  /\ scan.finishCount = 3
  /\ scan.status = "failed"
  /\ ~scan.merged[1].failed
  /\ scan.merged[2].failed
  /\ ~scan.merged[3].failed
  /\ Len(scan.findings) = 2
  /\ scan.summary.totalFindings = 2

TypeOK ==
  /\ pc \in {"create", "html", "json", "csv", "txt", "done", "call", "api", "plugin", "tester", "scan"}
  /\ now \in 0..MaxClock
  /\ DOMAIN files = Formats
====
